---- MODULE Spec2Model ----
(***************************************************************************)
(* A model of cmlutils' external-process lifecycle:                        *)
(*   - open_ssh_endpoint (src/cmlutils/ssh.py): spawn the tunnel process,  *)
(*     read one banner line, parse the port, classify the failure;         *)
(*   - cdswctl_login (src/cmlutils/cdswctl.py): build, mask, log and run   *)
(*     the login command;                                                  *)
(*   - _download_and_extract and _cdswctl_tmp_dir_path                     *)
(*     (src/cmlutils/cdswctl.py): the install into a per-call workspace.   *)
(* Text is modelled as sequences of one-character strings, so that strip,  *)
(* split, isdigit and int are computed as Python computes them.            *)
(***************************************************************************)
EXTENDS Integers, Sequences, FiniteSets, TLC

VARIABLES
    t_args,         \* the arguments open_ssh_endpoint was called with
    command,        \* the argument vector built for the child (lines 30-42)
    \* ---- open_ssh_endpoint ----
    t_pc,           \* position of the call in open_ssh_endpoint
    child,          \* the spawned cdswctl process and its two pipes
    line,           \* the value readline() returned (raw, before strip)
    arr,            \* line.strip().split(" ")
    t_result,       \* what the call handed to its caller
    stdout_reads,   \* number of ssh_call.stdout.readline() calls made
    stderr_drains,  \* number of ssh_call.stderr.readlines() calls made
    \* ---- cdswctl_login ----
    l_pc,           \* position of the call in cdswctl_login
    l_args,         \* the arguments the call was given
    cmd,            \* the argument vector that is executed
    masked_cmd,     \* the copy of cmd that is rendered to the log
    l_log,          \* the messages logged, in order
    l_result,       \* what the call handed to its caller
    result,         \* the CompletedProcess of subprocess.run (line 101)
    \* ---- _download_and_extract ----
    BASE_PATH_CDSWCTL,  \* constants.BASE_PATH_CDSWCTL, the install root
    fs,             \* the file system: path -> "dir" or a file's content
    inst,           \* per install call: its position and its locals
    \* ---- _get_cdswctl_download_url ----
    platform,       \* sys.platform, "unread" until a call first reads it
    u_pc,           \* position of the call in _get_cdswctl_download_url
    u_host,         \* the host argument of the call
    final_url       \* the URL the call returned

tunnel_vars == <<t_args, command, t_pc, child, line, arr, t_result,
                 stdout_reads, stderr_drains>>

login_vars == <<l_pc, l_args, cmd, masked_cmd, l_log, l_result, result>>

install_vars == <<BASE_PATH_CDSWCTL, fs, inst>>

url_vars == <<platform, u_pc, u_host, final_url>>

vars == <<tunnel_vars, login_vars, install_vars, url_vars>>

(***************************************************************************)
(* Bounds                                                                  *)
(***************************************************************************)
\* The largest number of blank-delimited fields the child writes in a banner.
MaxFields == 4

(***************************************************************************)
(* Python text primitives                                                  *)
(***************************************************************************)
\* U+00B2 SUPERSCRIPT TWO: str.isdigit() accepts it, int() rejects it.
SUP2 == "SUP2"

AsciiDigits == {"0", "1", "2", "3", "4", "5", "6", "7", "8", "9"}

\* The characters str.strip() removes when called without arguments.
IsSpace(c) == c \in {" ", "\t", "\n", "\r"}

RECURSIVE LStrip(_)
LStrip(s) ==
    IF s # <<>> /\ IsSpace(Head(s)) THEN LStrip(Tail(s)) ELSE s

RECURSIVE RStrip(_)
RStrip(s) ==
    IF s # <<>> /\ IsSpace(s[Len(s)]) THEN RStrip(SubSeq(s, 1, Len(s) - 1)) ELSE s

\* str.strip(): leading and trailing whitespace removed.
Strip(s) == RStrip(LStrip(s))

RECURSIVE SplitFrom(_, _, _, _)
SplitFrom(s, i, cur, acc) ==
    IF i > Len(s) THEN Append(acc, cur)
    ELSE IF s[i] = " " THEN SplitFrom(s, i + 1, <<>>, Append(acc, cur))
    ELSE SplitFrom(s, i + 1, Append(cur, s[i]), acc)

\* str.split(" "): cut at every single space; adjacent spaces yield empty
\* fields and the empty string yields one empty field.
Split(s) == SplitFrom(s, 1, <<>>, <<>>)

\* str.isdigit(): non-empty and every character is a Unicode digit.
isdigit(s) ==
    /\ s # <<>>
    /\ \A i \in 1..Len(s) : s[i] \in AsciiDigits \cup {SUP2}

DigitVal(c) ==
    CASE c = "0" -> 0 [] c = "1" -> 1 [] c = "2" -> 2 [] c = "3" -> 3
      [] c = "4" -> 4 [] c = "5" -> 5 [] c = "6" -> 6 [] c = "7" -> 7
      [] c = "8" -> 8 [] c = "9" -> 9

\* int(s) raises ValueError unless s is a decimal literal.
IntRaises(s) == s = <<>> \/ \E i \in 1..Len(s) : s[i] \notin AsciiDigits

\* int(s, 16): the field read in base 16 instead of base 10.
RECURSIVE int_base16(_)
int_base16(s) ==
    IF s = <<>> THEN 0
    ELSE int_base16(SubSeq(s, 1, Len(s) - 1)) * 16 + DigitVal(s[Len(s)])

RECURSIVE int(_)
int(s) ==
    IF s = <<>> THEN 0
    ELSE int(SubSeq(s, 1, Len(s) - 1)) * 10 + DigitVal(s[Len(s)])

(***************************************************************************)
(* The banners the child process may write                                 *)
(***************************************************************************)
HeadFields == { <<"a">>, <<"7">> }

LastFields ==
    { <<"a">>, <<"0">>, <<"4", "2">>, <<"7", "0", "0", "0", "0">>,
      <<SUP2>>, <<"4", "a">> }

Seps == { <<" ">>, <<" ", " ">>, <<"\t">> }

RECURSIVE Bodies(_)
Bodies(n) ==
    IF n = 0 THEN { <<>> }
    ELSE IF n = 1 THEN LastFields
    ELSE { h \o s \o rest : h \in HeadFields, s \in Seps, rest \in Bodies(n - 1) }

Leads == { <<>>, <<" ">> }

Terminators == { <<"\n">>, <<>> }

\* Everything the child may have written to stdout before its first newline
\* (or before closing the stream without one).
Banners ==
    { l \o b \o t : l \in Leads,
                    b \in UNION { Bodies(n) : n \in 0..MaxFields },
                    t \in Terminators }

HasNewline(s) == \E i \in 1..Len(s) : s[i] = "\n"

\* What readline() returns from the unread stdout text: the text up to and
\* including the first newline, or all of it at end of stream.
RECURSIVE FirstLine(_)
FirstLine(s) ==
    IF s = <<>> THEN <<>>
    ELSE IF Head(s) = "\n" THEN <<"\n">>
    ELSE <<Head(s)>> \o FirstLine(Tail(s))

(***************************************************************************)
(* open_ssh_endpoint                                                       *)
(***************************************************************************)
NoChild ==
    [running |-> FALSE, wrote |-> FALSE, out |-> <<>>,
     out_open |-> FALSE, err_open |-> FALSE]

NoResult == [kind |-> "none", handle |-> FALSE, port |-> 0, exc |-> "none"]

\* The values the caller may pass.
ProjectSlugs == {"burj-h993"}
RuntimeIds == {-1, 0, 7}

\* str(n) for an integer n.
str(n) == ToString(n)

\* Lines 30-42 appending the runtime option whatever the runtime id is.
ssh_command_always_r(a) ==
    <<a.cdswctl_path, "ssh-endpoint", "-p", a.project_slug,
      "-c", "1.0", "-m", "0.5">> \o <<"-r", str(a.runtime_id)>>

\* Lines 30-42: the argument vector.
ssh_command(a) ==
    <<a.cdswctl_path, "ssh-endpoint", "-p", a.project_slug,
      "-c", "1.0", "-m", "0.5">>
    \o (IF a.runtime_id # -1 THEN <<"-r", str(a.runtime_id)>> ELSE <<>>)

NoTunnelArgs == [cdswctl_path |-> "", project_slug |-> "", runtime_id |-> -1]

\* The arguments of one call.
TunnelArgs ==
    [cdswctl_path : {"/base/tok/cdswctl"}, project_slug : ProjectSlugs,
     runtime_id : RuntimeIds]

TunnelInit ==
    /\ t_args = NoTunnelArgs
    /\ command = <<>>
    /\ t_pc = "idle"
    /\ child = NoChild
    /\ line = <<>>
    /\ arr = <<>>
    /\ t_result = NoResult
    /\ stdout_reads = 0
    /\ stderr_drains = 0

\* Line 57 with only its `line == None` half: readline() never returns None.
NoOutput_only_none(l) == FALSE

\* Line 57 applied after the strip of line 64: a blank line counts as no
\* output.
NoOutput_after_strip(l) == Strip(l) = <<>>

\* The guard of line 57: the read yielded no content.
NoOutput(l) == l = <<>>

\* Line 66 with `len(arr) <= 4`: a banner of exactly four fields is refused.
Malformed_off_by_one(a) == Len(a) <= 4 \/ ~isdigit(a[4])

\* The guard of line 66: too few fields, or field 3 is not digits.
Malformed(a) == Len(a) <= 3 \/ ~isdigit(a[4])

\* Line 74: the field converted to the port.
port_number(a) == int(a[4])

\* Lines 30-52: the command is built, and subprocess.Popen(command) starts
\* the child with both pipes captured and returns at once, without
\* waiting for the child.
Popen ==
    /\ t_pc = "idle"
    /\ \E a \in TunnelArgs :
          /\ t_args' = a
          /\ command' = ssh_command(a)
    /\ child' = [running |-> TRUE, wrote |-> FALSE, out |-> <<>>,
                 out_open |-> TRUE, err_open |-> TRUE]
    /\ t_pc' = "readline"
    /\ UNCHANGED <<line, arr, t_result, stdout_reads, stderr_drains,
                   login_vars, install_vars, url_vars>>

\* Lines 30-52: the command is built, and subprocess.Popen raises because
\* the binary cannot be executed.
PopenFails ==
    /\ t_pc = "idle"
    /\ \E a \in TunnelArgs :
          /\ t_args' = a
          /\ command' = ssh_command(a)
    /\ t_result' = [kind |-> "raised", handle |-> FALSE, port |-> 0,
                    exc |-> "OSError"]
    /\ t_pc' = "done"
    /\ UNCHANGED <<child, line, arr, stdout_reads, stderr_drains,
                   login_vars, install_vars, url_vars>>

\* The child writes its banner to stdout.
ChildWrite ==
    /\ t_pc # "done"
    /\ child.running /\ child.out_open /\ ~child.wrote
    /\ \E b \in Banners \ {<<>>} :
          child' = [child EXCEPT !.wrote = TRUE, !.out = b]
    /\ UNCHANGED <<t_pc, line, arr, t_result, stdout_reads, stderr_drains,
                   t_args, command, login_vars, install_vars, url_vars>>

\* The child closes its stdout and keeps running.
ChildCloseStdout ==
    /\ t_pc # "done"
    /\ child.running /\ child.out_open
    /\ child' = [child EXCEPT !.out_open = FALSE]
    /\ UNCHANGED <<t_pc, line, arr, t_result, stdout_reads, stderr_drains,
                   t_args, command, login_vars, install_vars, url_vars>>

\* The child closes its stderr and keeps running.
ChildCloseStderr ==
    /\ t_pc # "done"
    /\ child.running /\ child.err_open
    /\ child' = [child EXCEPT !.err_open = FALSE]
    /\ UNCHANGED <<t_pc, line, arr, t_result, stdout_reads, stderr_drains,
                   t_args, command, login_vars, install_vars, url_vars>>

\* The child exits: both of its pipe ends are closed.
ChildExit ==
    /\ t_pc # "done"
    /\ child.running
    /\ child' = [child EXCEPT !.running = FALSE, !.out_open = FALSE,
                              !.err_open = FALSE]
    /\ UNCHANGED <<t_pc, line, arr, t_result, stdout_reads, stderr_drains,
                   t_args, command, login_vars, install_vars, url_vars>>

\* Lines 56-57 reading on when the line is blank.
Readline_skipping_blank ==
    /\ t_pc = "readline"
    /\ HasNewline(child.out) \/ ~child.out_open
    /\ line' = FirstLine(child.out)
    /\ child' = [child EXCEPT !.out = SubSeq(child.out, Len(line') + 1,
                                             Len(child.out))]
    /\ stdout_reads' = stdout_reads + 1
    /\ t_pc' = IF NoOutput(line') THEN "drain_empty"
               ELSE IF Strip(line') = <<>> THEN "readline" ELSE "parse"
    /\ UNCHANGED <<arr, t_result, stderr_drains,
                   t_args, command, login_vars, install_vars, url_vars>>

\* Lines 56-57: the one blocking readline() on stdout. It returns once a
\* newline is buffered or the stream has ended.
Readline ==
    /\ t_pc = "readline"
    /\ HasNewline(child.out) \/ ~child.out_open
    /\ line' = FirstLine(child.out)
    /\ child' = [child EXCEPT !.out = SubSeq(child.out, Len(line') + 1,
                                             Len(child.out))]
    /\ stdout_reads' = stdout_reads + 1
    /\ t_pc' = IF NoOutput(line') THEN "drain_empty" ELSE "parse"
    /\ UNCHANGED <<arr, t_result, stderr_drains,
                   t_args, command, login_vars, install_vars, url_vars>>

\* Lines 58-61: stderr.readlines() returns at end of stream; then the
\* sentinel (None, -1) is returned.
DrainEmpty ==
    /\ t_pc = "drain_empty"
    /\ ~child.err_open
    /\ stderr_drains' = stderr_drains + 1
    /\ t_result' = [kind |-> "sentinel", handle |-> FALSE, port |-> -1,
                    exc |-> "none"]
    /\ t_pc' = "done"
    /\ UNCHANGED <<child, line, arr, stdout_reads,
                   t_args, command, login_vars, install_vars, url_vars>>

\* Lines 64-66 and 73-76: strip, split on single spaces, test the shape and
\* convert field 3.
Parse ==
    /\ t_pc = "parse"
    /\ arr' = Split(Strip(line))
    /\ IF Malformed(arr')
         THEN /\ t_pc' = "drain_bad"
              /\ UNCHANGED t_result
         ELSE /\ t_pc' = "done"
              /\ t_result' =
                   IF IntRaises(arr'[4])
                     THEN [kind |-> "raised", handle |-> FALSE, port |-> 0,
                           exc |-> "ValueError"]
                     ELSE [kind |-> "ready", handle |-> TRUE,
                           port |-> port_number(arr'), exc |-> "none"]
    /\ UNCHANGED <<child, line, stdout_reads, stderr_drains,
                   t_args, command, login_vars, install_vars, url_vars>>

\* Lines 67-72: stderr.readlines() returns at end of stream; then the
\* failure is raised.
DrainBad ==
    /\ t_pc = "drain_bad"
    /\ ~child.err_open
    /\ stderr_drains' = stderr_drains + 1
    /\ t_result' = [kind |-> "raised", handle |-> FALSE, port |-> 0,
                    exc |-> "Exception"]
    /\ t_pc' = "done"
    /\ UNCHANGED <<child, line, arr, stdout_reads,
                   t_args, command, login_vars, install_vars, url_vars>>

\* The steps open_ssh_endpoint itself takes.
TunnelCall == Popen \/ PopenFails \/ Readline \/ DrainEmpty \/ Parse \/ DrainBad

TunnelNext ==
    \/ Popen
    \/ PopenFails
    \/ ChildWrite
    \/ ChildCloseStdout
    \/ ChildCloseStderr
    \/ ChildExit
    \/ Readline
    \/ DrainEmpty
    \/ Parse
    \/ DrainBad

(***************************************************************************)
(* cdswctl_login                                                           *)
(***************************************************************************)
\* The values the caller may pass. An API key may coincide with the user
\* name, with the host or with one of the fixed words of the command.
BinaryPaths == {"/base/tok/cdswctl"}
Hosts == {"https://h", "k1"}
Usernames == {"bob", "k1", "-y"}
ApiKeys == {"k1", "-y", "login"}
CaPaths == {"", "false", "False", "FALSE", "/ca.pem"}

\* The exit statuses of the process (negative: ended by a signal) and the
\* text it may leave on its stderr.
ReturnCodes == {0, 1, 2, -9}
Stderrs == {"", "bad credentials"}

\* str.lower() on the ca_path values above.
lower(x) == IF x \in {"False", "FALSE"} THEN "false" ELSE x

\* " ".join(xs), kept as the joined pieces: the arguments with a blank
\* between neighbours.
RECURSIVE Join(_)
Join(xs) ==
    IF xs = <<>> THEN <<>>
    ELSE IF Len(xs) = 1 THEN xs
    ELSE <<Head(xs), " ">> \o Join(Tail(xs))

\* list.index(x): the position of the first element equal to x (1-based
\* here); -1 when the guard `x in xs` of line 95 fails.
index(xs, x) ==
    IF \E i \in 1..Len(xs) : xs[i] = x
      THEN CHOOSE i \in 1..Len(xs) :
             xs[i] = x /\ \A j \in 1..(i - 1) : xs[j] # x
      ELSE -1

\* Line 89 comparing ca_path itself with "false".
login_cmd_case_sensitive(a) ==
    <<a.cdswctl_path, "login", "-n", a.username, "-u", a.host, "-y", a.api_key>>
    \o (IF a.ca_path = "false" THEN <<"--insecure-skip-verify">> ELSE <<>>)

\* Line 86 and lines 89-90: the argument vector.
login_cmd(a) ==
    <<a.cdswctl_path, "login", "-n", a.username, "-u", a.host, "-y", a.api_key>>
    \o (IF lower(a.ca_path) = "false" THEN <<"--insecure-skip-verify">> ELSE <<>>)

\* Lines 94-97: the copy of the vector with the key's position overwritten.
mask(c, api_key) ==
    IF index(c, api_key) # -1
      THEN [c EXCEPT ![index(c, api_key)] = "<api_key>"]
      ELSE c

\* Line 94 binding masked_cmd to cmd itself instead of a copy: the
\* assignment of line 97 then changes cmd as well.
cmd_after_masking_alias(c, api_key) == mask(c, api_key)

\* Lines 94-97: cmd after the mask was applied to masked_cmd, a copy made
\* by cmd.copy(); cmd keeps every element.
cmd_after_masking(c, api_key) == c

\* Line 108 testing for a positive return code.
login_failed_positive(rc) == rc > 0

\* Line 108: result.returncode != 0
login_failed(rc) == rc # 0

NoProcess == [args |-> <<>>, returncode |-> 0, stderr |-> "", ran |-> FALSE]

NoArgs ==
    [cdswctl_path |-> "", host |-> "", username |-> "", api_key |-> "",
     ca_path |-> ""]

LoginInit ==
    /\ l_pc = "idle"
    /\ l_args = NoArgs
    /\ cmd = <<>>
    /\ masked_cmd = <<>>
    /\ l_log = <<>>
    /\ l_result = [kind |-> "none", exc |-> "none", message |-> <<>>]
    /\ result = NoProcess

\* Lines 85-98: build the command, mask a copy and log it.
LoginBuild ==
    /\ l_pc = "idle"
    /\ \E p \in BinaryPaths, h \in Hosts, u \in Usernames, k \in ApiKeys,
          ca \in CaPaths :
          /\ l_args' = [cdswctl_path |-> p, host |-> h, username |-> u,
                        api_key |-> k, ca_path |-> ca]
          /\ cmd' = cmd_after_masking(login_cmd(l_args'), k)
          /\ masked_cmd' = mask(login_cmd(l_args'), k)
          /\ l_log' =
               <<[level |-> "info", text |-> <<"Logging into cdsw via cdswctl">>]>>
               \o (IF lower(ca) = "false"
                     THEN <<[level |-> "debug",
                             text |-> <<"Added --insecure-skip-verify flag to cdswctl login command">>]>>
                     ELSE <<>>)
               \o <<[level |-> "debug",
                     text |-> <<"cdswctl login command: ">> \o Join(masked_cmd')]>>
    /\ l_pc' = "run"
    /\ UNCHANGED <<l_result, result, tunnel_vars, install_vars, url_vars>>

\* Lines 101-115: run cmd to completion; a non-zero return code is logged
\* with the captured stderr and raised, zero returns the result.
LoginRun ==
    /\ l_pc = "run"
    /\ \E rc \in ReturnCodes, err \in Stderrs :
          /\ result' = [args |-> cmd, returncode |-> rc, stderr |-> err,
                        ran |-> TRUE]
          /\ IF login_failed(rc)
               THEN /\ l_log' = Append(l_log,
                          [level |-> "error",
                           text |-> <<"cdswctl login failed: ", err>>])
                    /\ l_result' =
                          [kind |-> "raised", exc |-> "Exception",
                           message |-> <<"cdswctl login failed with return code ",
                                         str(rc)>>]
               ELSE /\ l_log' = l_log \o
                          <<[level |-> "info", text |-> <<"Login succeeded">>],
                            [level |-> "debug",
                             text |-> <<"cdswctl login output: ", "STDOUT">>]>>
                    /\ l_result' =
                          [kind |-> "returned", exc |-> "none", message |-> <<>>]
    /\ l_pc' = "done"
    /\ UNCHANGED <<l_args, cmd, masked_cmd, tunnel_vars, install_vars, url_vars>>

\* Line 101: subprocess.run raises because the binary cannot be executed;
\* the error propagates.
LoginRunFails ==
    /\ l_pc = "run"
    /\ l_result' = [kind |-> "raised", exc |-> "OSError", message |-> <<>>]
    /\ l_pc' = "done"
    /\ UNCHANGED <<l_args, cmd, masked_cmd, l_log, result,
                   tunnel_vars, install_vars, url_vars>>

LoginNext ==
    \/ LoginBuild
    \/ LoginRun
    \/ LoginRunFails

(***************************************************************************)
(* _get_cdswctl_download_url                                               *)
(***************************************************************************)
\* The values sys.platform may have; the last one stands for every value
\* the code does not name. ("linux2" is the value of Python 2 only.)
Platforms == {"linux", "darwin", "win32", "freebsd13"}

\* A URL is its scheme and authority (origin, "" when absent), the segments
\* of its path, and whether the path ends with "/".
UrlOrigins == {"https://h", "http://h:8080", ""}
UrlPaths == { <<>>, <<"ws">>, <<"a", "b">>, <<"cli">>, <<"ws", "cli">> }
HostUrls == { [origin |-> o, path |-> q, slash |-> t] :
                o \in UrlOrigins, q \in UrlPaths, t \in BOOLEAN }

\* A relative reference: path segments, with or without a final "/".
Ref(segments, t) == [path |-> segments, slash |-> t]

\* urllib.parse.urljoin(base, ref) for a relative path ref: the last
\* segment of base is dropped unless base ends with "/", then ref follows.
urljoin(base, ref) ==
    [origin |-> base.origin,
     path |-> (IF base.slash \/ base.path = <<>>
                 THEN base.path
                 ELSE SubSeq(base.path, 1, Len(base.path) - 1)) \o ref.path,
     slash |-> ref.slash]

\* Lines 15-23 with the darwin and windows targets exchanged.
get_cdswctl_download_url_swapped(host, p) ==
    LET base_url == urljoin(host, Ref(<<"cli">>, TRUE)) IN
    IF p = "linux" \/ p = "linux2"
      THEN urljoin(base_url, Ref(<<"linux", "amd64", "cdsw.tar.gz">>, FALSE))
    ELSE IF p = "darwin"
      THEN urljoin(base_url, Ref(<<"windows", "amd64", "cdsw.zip">>, FALSE))
    ELSE urljoin(base_url, Ref(<<"darwin", "amd64", "cdsw.tar.gz">>, FALSE))

\* Lines 15-23: _get_cdswctl_download_url(host), p being sys.platform.
get_cdswctl_download_url(host, p) ==
    LET base_url == urljoin(host, Ref(<<"cli">>, TRUE)) IN
    IF p = "linux" \/ p = "linux2"
      THEN urljoin(base_url, Ref(<<"linux", "amd64", "cdsw.tar.gz">>, FALSE))
    ELSE IF p = "darwin"
      THEN urljoin(base_url, Ref(<<"darwin", "amd64", "cdsw.tar.gz">>, FALSE))
    ELSE urljoin(base_url, Ref(<<"windows", "amd64", "cdsw.zip">>, FALSE))

NoUrl == [origin |-> "", path |-> <<>>, slash |-> FALSE]

UrlInit ==
    /\ platform = "unread"
    /\ u_pc = "idle"
    /\ u_host = NoUrl
    /\ final_url = NoUrl

\* sys.platform as a call reads it: fixed once it has been read.
ReadPlatform(p) ==
    /\ p \in Platforms
    /\ platform \in {"unread", p}

\* Lines 15-23: one call of _get_cdswctl_download_url(host).
GetDownloadUrl ==
    /\ u_pc = "idle"
    /\ \E host \in HostUrls, p \in Platforms :
          /\ ReadPlatform(p)
          /\ platform' = p
          /\ u_host' = host
          /\ final_url' = get_cdswctl_download_url(host, p)
    /\ u_pc' = "returned"
    /\ UNCHANGED <<tunnel_vars, login_vars, install_vars>>

UrlNext == GetDownloadUrl

(***************************************************************************)
(* _cdswctl_tmp_dir_path and _download_and_extract                         *)
(***************************************************************************)
\* The install calls that may run at the same time.
Installs == {"i1", "i2"}

\* The values uuid.uuid1().hex[:10] may take: the prefix keeps 40 bits of
\* the timestamp, so two calls can draw the same token.
Tokens == {"tok1", "tok2"}

\* The values constants.BASE_PATH_CDSWCTL may hold. A path is the sequence
\* of its components; <<>> is the file system root.
BasePaths == { <<"base">>, <<"elsewhere">> }

\* The host that obtain_cdswctl is given (line 55).
InstallHost == [origin |-> "https://h", path |-> <<>>, slash |-> FALSE]

\* Line 27: url.split("/")[-1], for a URL with a path.
file_name(u) == IF u.slash THEN "" ELSE u.path[Len(u.path)]

\* What the server may deliver. Each archive is the set of its members;
\* "goodzip" is a well-formed zip file, every other archive a
\* gzip-compressed tar file. "escape" holds a member named ../cdswctl.
Archives == {"good", "goodzip", "extra", "empty", "escape"}

Members(a) ==
    CASE a = "good"  -> { [rel |-> <<"cdsw">>, kind |-> "dir"],
                          [rel |-> <<"cdsw", "cdswctl">>, kind |-> "binary"] }
      [] a = "extra" -> { [rel |-> <<"cdsw">>, kind |-> "dir"],
                          [rel |-> <<"cdsw", "cdswctl">>, kind |-> "binary"],
                          [rel |-> <<"cdsw", "README">>, kind |-> "text"] }
      [] a = "empty" -> { }
      [] a = "escape" -> { [rel |-> <<"cdsw">>, kind |-> "dir"],
                           [rel |-> <<"cdsw", "cdswctl">>, kind |-> "binary"],
                           [rel |-> <<"..", "cdswctl">>, kind |-> "text"] }
      [] a = "goodzip" -> { [rel |-> <<"cdsw">>, kind |-> "dir"],
                            [rel |-> <<"cdsw", "cdswctl">>, kind |-> "binary"] }

\* tarfile.open raises ReadError on content that is no tar archive, a zip
\* file included.
IsTar(a) == a # "goodzip"

\* os.path.join(p, name)
join(p, name) == Append(p, name)

Parent(p) == SubSeq(p, 1, Len(p) - 1)

\* Path(p).parents: every proper ancestor of p, the root included.
parents(p) == { SubSeq(p, 1, k) : k \in 0..(Len(p) - 1) }

exists(f, p) == p = <<>> \/ p \in DOMAIN f

isdir(f, p) == p = <<>> \/ (p \in DOMAIN f /\ f[p] = "dir")

isfile(f, p) == p \in DOMAIN f /\ f[p] # "dir"

\* os.listdir(d): the names of the entries of directory d.
listdir(f, d) == { p[Len(p)] : p \in { q \in DOMAIN f : Len(q) = Len(d) + 1 /\ Parent(q) = d } }

write(f, p, content) == [q \in DOMAIN f \cup {p} |-> IF q = p THEN content ELSE f[q]]

delete(f, p) == [q \in DOMAIN f \ {p} |-> f[q]]

\* os.makedirs(d): d and every missing ancestor become directories.
makedirs(f, d) ==
    [q \in DOMAIN f \cup { SubSeq(d, 1, k) : k \in 1..Len(d) } |->
        IF q \in DOMAIN f THEN f[q] ELSE "dir"]

\* The file the operating system reaches by path p: ".." steps to the
\* parent directory.
RECURSIVE resolve(_)
resolve(p) ==
    IF p = <<>> THEN <<>>
    ELSE LET q == resolve(SubSeq(p, 1, Len(p) - 1))
             last == p[Len(p)]
         IN  IF last = ".."
               THEN (IF q = <<>> THEN <<>> ELSE SubSeq(q, 1, Len(q) - 1))
               ELSE Append(q, last)

\* Where tf.extractall(d) puts member m: os.path.join(d, m.name).
target(d, m) == resolve(d \o m.rel)

\* tf.extractall(d) for the members in ms.
extract(f, d, ms) ==
    [q \in DOMAIN f \cup { target(d, m) : m \in ms } |->
        IF \E m \in ms : target(d, m) = q
          THEN (CHOOSE m \in ms : target(d, m) = q).kind
          ELSE f[q]]

\* os.removedirs(d) after its leaf was removed: prune the ancestors that
\* are left empty, stopping at the first one that is not.
RECURSIVE prune(_, _)
prune(f, d) ==
    IF d # <<>> /\ isdir(f, d) /\ listdir(f, d) = {}
      THEN prune(delete(f, d), Parent(d))
      ELSE f

\* Line 29 joining the file name to the base path instead of the workspace.
archive_path_in_base(dirpath, name) == join(Parent(dirpath), name)

\* Line 29: file_path = os.path.join(dir_path, file_name)
archive_path(dirpath, name) == join(dirpath, name)

\* Line 31 testing dir_path against its own parent instead of the base
\* path: the test can no longer fail.
path_validated_own_parent(base, d) == Parent(d) \in parents(d)

\* Line 31: Path(BASE_PATH_CDSWCTL) in Path(dir_path).parents
path_validated(base, d) == base \in parents(d)

\* The locals of one call, with what the claims need to know of its past:
\* fetched is the archive the call downloaded, root_seen the base path read
\* at line 31, failed_at the step that raised, and shared records that
\* another call was using the same workspace directory while this one ran,
\* and touched is the set of paths the call created, wrote, moved or removed
\* (the workspace directory included, its ancestors not).
NoInstall ==
    [pc |-> "idle", dir_path |-> <<>>, file_path |-> <<>>, created |-> FALSE,
     shared |-> FALSE, fetched |-> "none", root_seen |-> <<>>,
     checked |-> "no", tf |-> "none", extract_calls |-> 0,
     remove_calls |-> 0, cdswctldir |-> "", returned |-> <<>>,
     exc |-> "none", failed_at |-> "none", touched |-> {}]

\* The call has started and has neither returned nor raised.
Running(i) == inst[i].pc \notin {"idle", "returned", "raised"}

\* The base path the process starts with.
InitialBasePath == <<"base">>

InstallInit ==
    /\ BASE_PATH_CDSWCTL = InitialBasePath
    /\ fs = << >>
    /\ inst = [i \in Installs |-> NoInstall]

\* The call ends by raising e.
raise(i, e) ==
    [inst[i] EXCEPT !.pc = "raised", !.exc = e, !.failed_at = inst[i].pc]

\* Lines 55, 27-29 and 47-49: the URL for this platform, the token, the
\* workspace path and the test whether it exists already.
TmpDirPath(i) ==
    /\ inst[i].pc = "idle"
    /\ \E subdir \in Tokens, p \in Platforms :
         LET url == get_cdswctl_download_url(InstallHost, p)
             dirpath == join(BASE_PATH_CDSWCTL, subdir)
             sharing == { j \in Installs \ {i} :
                            Running(j) /\ inst[j].dir_path = dirpath }
         IN
         /\ inst' = [j \in Installs |->
                    IF j = i
                      THEN [inst[i] EXCEPT
                              !.dir_path = dirpath,
                              !.file_path = archive_path(dirpath, file_name(url)),
                              !.shared = sharing # {},
                              !.pc = IF exists(fs, dirpath)
                                       THEN "download" ELSE "makedirs"]
                    ELSE IF j \in sharing
                      THEN [inst[j] EXCEPT !.shared = TRUE]
                    ELSE inst[j]]
         /\ ReadPlatform(p)
         /\ platform' = p
    /\ UNCHANGED <<BASE_PATH_CDSWCTL, fs, tunnel_vars, login_vars,
                   u_pc, u_host, final_url>>

\* Line 50: os.makedirs(dirpath); FileExistsError when the directory was
\* created since the test of line 49.
MakeDirs(i) ==
    /\ inst[i].pc = "makedirs"
    /\ IF exists(fs, inst[i].dir_path)
         THEN /\ inst' = [inst EXCEPT ![i] = raise(i, "FileExistsError")]
              /\ UNCHANGED fs
         ELSE /\ fs' = makedirs(fs, inst[i].dir_path)
              /\ inst' = [inst EXCEPT ![i] =
                            [@ EXCEPT !.pc = "download", !.created = TRUE,
                                      !.touched = @ \cup {inst[i].dir_path}]]
    /\ UNCHANGED <<BASE_PATH_CDSWCTL, tunnel_vars, login_vars, url_vars>>

\* Line 30: download_file writes the response body to file_path.
Download(i) ==
    /\ inst[i].pc = "download"
    /\ \E a \in Archives :
          /\ fs' = write(fs, inst[i].file_path, a)
          /\ inst' = [inst EXCEPT ![i] =
                        [@ EXCEPT !.pc = "validate", !.fetched = a,
                                  !.touched = @ \cup {inst[i].file_path}]]
    /\ UNCHANGED <<BASE_PATH_CDSWCTL, tunnel_vars, login_vars, url_vars>>

\* Line 30: download_file fails; the transport error propagates.
DownloadFails(i) ==
    /\ inst[i].pc = "download"
    /\ inst' = [inst EXCEPT ![i] = raise(i, "TransportError")]
    /\ UNCHANGED <<BASE_PATH_CDSWCTL, fs, tunnel_vars, login_vars, url_vars>>

\* Lines 31 and 35-36: the descendant test, and the RuntimeError.
Validate(i) ==
    /\ inst[i].pc = "validate"
    /\ inst' = [inst EXCEPT ![i] =
         IF path_validated(BASE_PATH_CDSWCTL, inst[i].dir_path)
           THEN [@ EXCEPT !.pc = "open", !.checked = "passed",
                          !.root_seen = BASE_PATH_CDSWCTL]
           ELSE [@ EXCEPT !.pc = "raised", !.exc = "RuntimeError",
                          !.failed_at = "validate", !.checked = "failed",
                          !.root_seen = BASE_PATH_CDSWCTL]]
    /\ UNCHANGED <<BASE_PATH_CDSWCTL, fs, tunnel_vars, login_vars, url_vars>>

\* Line 32: tarfile.open(file_path).
TarOpen(i) ==
    /\ inst[i].pc = "open"
    /\ inst' = [inst EXCEPT ![i] =
         IF ~isfile(fs, inst[i].file_path) THEN raise(i, "FileNotFoundError")
         ELSE IF ~IsTar(fs[inst[i].file_path]) THEN raise(i, "ReadError")
         ELSE [@ EXCEPT !.pc = "extract", !.tf = fs[inst[i].file_path]]]
    /\ UNCHANGED <<BASE_PATH_CDSWCTL, fs, tunnel_vars, login_vars, url_vars>>

\* Lines 33-34: tf.extractall(dir_path) writes every member.
ExtractAll(i) ==
    /\ inst[i].pc = "extract"
    /\ fs' = extract(fs, inst[i].dir_path, Members(inst[i].tf))
    /\ inst' = [inst EXCEPT ![i] =
                  [@ EXCEPT !.pc = "remove", !.extract_calls = @ + 1,
                            !.touched = @ \cup
                               { target(inst[i].dir_path, m) :
                                   m \in Members(inst[i].tf) }]]
    /\ UNCHANGED <<BASE_PATH_CDSWCTL, tunnel_vars, login_vars, url_vars>>

\* Line 33: tf.extractall fails part way (an I/O error): the top-level
\* members are written, the rest is not, and the error propagates.
ExtractFails(i) ==
    /\ inst[i].pc = "extract"
    /\ fs' = extract(fs, inst[i].dir_path,
                     { m \in Members(inst[i].tf) : Len(m.rel) = 1 })
    /\ inst' = [inst EXCEPT ![i] =
                  [@ EXCEPT !.pc = "raised", !.exc = "OSError",
                            !.failed_at = "extract",
                            !.extract_calls = @ + 1,
                            !.touched = @ \cup
                               { target(inst[i].dir_path, m) :
                                   m \in { n \in Members(inst[i].tf) :
                                             Len(n.rel) = 1 } }]]
    /\ UNCHANGED <<BASE_PATH_CDSWCTL, tunnel_vars, login_vars, url_vars>>

\* Line 37 left out: the archive file is not deleted.
Remove_not_deleting(i) ==
    /\ inst[i].pc = "remove"
    /\ inst' = [inst EXCEPT ![i] = [@ EXCEPT !.pc = "listdir"]]
    /\ UNCHANGED <<BASE_PATH_CDSWCTL, fs, tunnel_vars, login_vars, url_vars>>

\* Line 37: os.remove(file_path).
Remove(i) ==
    /\ inst[i].pc = "remove"
    /\ IF isfile(fs, inst[i].file_path)
         THEN /\ fs' = delete(fs, inst[i].file_path)
              /\ inst' = [inst EXCEPT ![i] =
                            [@ EXCEPT !.pc = "listdir", !.remove_calls = @ + 1,
                                      !.touched = @ \cup {inst[i].file_path}]]
         ELSE /\ inst' = [inst EXCEPT ![i] =
                            [@ EXCEPT !.pc = "raised",
                                      !.exc = "FileNotFoundError",
                                      !.failed_at = "remove",
                                      !.remove_calls = @ + 1]]
              /\ UNCHANGED fs
    /\ UNCHANGED <<BASE_PATH_CDSWCTL, tunnel_vars, login_vars, url_vars>>

\* Line 38: os.listdir(dir_path)[0]. The order of listdir is arbitrary, so
\* any entry may come first; IndexError on an empty directory.
ListDir(i) ==
    /\ inst[i].pc = "listdir"
    /\ IF listdir(fs, inst[i].dir_path) = {}
         THEN inst' = [inst EXCEPT ![i] = raise(i, "IndexError")]
         ELSE \E e \in listdir(fs, inst[i].dir_path) :
                inst' = [inst EXCEPT ![i] =
                           [@ EXCEPT !.pc = "rename", !.cdswctldir = e]]
    /\ UNCHANGED <<BASE_PATH_CDSWCTL, fs, tunnel_vars, login_vars, url_vars>>

\* Lines 39-41: os.rename(dir_path/cdswctldir/cdswctl, dir_path/cdswctl).
Rename(i) ==
    /\ inst[i].pc = "rename"
    /\ LET old_file_path == join(join(inst[i].dir_path, inst[i].cdswctldir), "cdswctl")
           new_file_path == join(inst[i].dir_path, "cdswctl")
       IN  IF ~isfile(fs, old_file_path)
             THEN /\ inst' = [inst EXCEPT ![i] = raise(i, "FileNotFoundError")]
                  /\ UNCHANGED fs
           ELSE IF isdir(fs, new_file_path)
             THEN /\ inst' = [inst EXCEPT ![i] = raise(i, "IsADirectoryError")]
                  /\ UNCHANGED fs
           ELSE /\ fs' = write(delete(fs, old_file_path), new_file_path,
                               fs[old_file_path])
                /\ inst' = [inst EXCEPT ![i] =
                              [@ EXCEPT !.pc = "removedirs",
                                        !.touched = @ \cup {old_file_path,
                                                            new_file_path}]]
    /\ UNCHANGED <<BASE_PATH_CDSWCTL, tunnel_vars, login_vars, url_vars>>

\* Lines 42-43: os.removedirs(dir_path/cdswctldir), then the return of
\* new_file_path.
RemoveDirs(i) ==
    /\ inst[i].pc = "removedirs"
    /\ LET leaf == join(inst[i].dir_path, inst[i].cdswctldir) IN
       IF isdir(fs, leaf) /\ listdir(fs, leaf) = {}
         THEN /\ fs' = prune(delete(fs, leaf), Parent(leaf))
              /\ inst' = [inst EXCEPT ![i] =
                            [@ EXCEPT !.pc = "returned",
                                      !.touched = @ \cup {leaf},
                                      !.returned = join(inst[i].dir_path, "cdswctl")]]
         ELSE /\ inst' = [inst EXCEPT ![i] = raise(i, "OSError")]
              /\ UNCHANGED fs
    /\ UNCHANGED <<BASE_PATH_CDSWCTL, tunnel_vars, login_vars, url_vars>>

\* The process-wide base path is reconfigured, once, while installs run.
Reconfigure ==
    /\ \E i \in Installs : inst[i].pc \notin {"returned", "raised"}
    /\ BASE_PATH_CDSWCTL = InitialBasePath
    /\ \E b \in BasePaths \ {BASE_PATH_CDSWCTL} : BASE_PATH_CDSWCTL' = b
    /\ UNCHANGED <<fs, inst, tunnel_vars, login_vars, url_vars>>

InstallNext ==
    \/ \E i \in Installs :
         \/ TmpDirPath(i)
         \/ MakeDirs(i)
         \/ Download(i)
         \/ DownloadFails(i)
         \/ Validate(i)
         \/ TarOpen(i)
         \/ ExtractAll(i)
         \/ ExtractFails(i)
         \/ Remove(i)
         \/ ListDir(i)
         \/ Rename(i)
         \/ RemoveDirs(i)
    \/ Reconfigure

Init == TunnelInit /\ LoginInit /\ InstallInit /\ UrlInit

SpecUrl == Init /\ [][UrlNext]_vars

SpecInstall == Init /\ [][InstallNext]_vars

SpecTunnel == Init /\ [][TunnelNext]_vars

SpecLogin == Init /\ [][LoginNext]_vars

\* The interpreter keeps running the call whenever its next step is not
\* blocked on a pipe; nothing obliges the child to write, close or exit.
FairSpecTunnel == SpecTunnel /\ WF_vars(TunnelCall)

(***************************************************************************)
(* Claims about open_ssh_endpoint                                          *)
(***************************************************************************)
\* A decimal literal: one or more of the characters 0-9.
IsDecimal(s) == s # <<>> /\ \A i \in 1..Len(s) : s[i] \in AsciiDigits

\* The number a decimal literal denotes, most significant digit first.
RECURSIVE DecimalValue(_, _)
DecimalValue(s, acc) ==
    IF s = <<>> THEN acc
    ELSE DecimalValue(Tail(s), 10 * acc + (CHOOSE d \in 0..9 : ToString(d) = Head(s)))

\* The call has read its line from stdout.
LineRead == stdout_reads >= 1

\* The fields of the line that was read: stripped, then cut at single spaces.
FieldsRead == Split(Strip(line))

\* C1: a process handle is returned only in the Ready outcome, that is only
\* after the line read from stdout was parsed into at least four fields whose
\* field at index 3 is a decimal integer, and the returned port is that
\* integer; the sentinel return and every raised failure expose no handle.
C1_HandleOnlyWhenReady ==
    /\ t_result.handle =>
          /\ t_result.kind = "ready"
          /\ t_pc = "done"
          /\ LineRead
          /\ Len(arr) >= 4
          /\ IsDecimal(arr[4])
          /\ t_result.port = DecimalValue(arr[4], 0)
    /\ t_result.kind \in {"sentinel", "raised"} => ~t_result.handle

\* A Ready outcome with a handle and the port of a four-field banner.
C1_Witness ==
    /\ t_result.kind = "ready" /\ t_result.handle
    /\ arr = << <<"a">>, <<"7">>, <<"a">>, <<"4", "2">> >>
    /\ t_result.port = 42

\* C2: when the one read on stdout yields no content (end of stream before
\* any line), the call returns the sentinel (no handle, port -1) and does
\* not raise.
C2_EmptyReadReturnsSentinel ==
    (LineRead /\ line = <<>>) =>
        /\ t_result.kind \in {"none", "sentinel"}
        /\ t_pc \in {"drain_empty", "done"}
        /\ t_pc = "done" => t_result = [kind |-> "sentinel", handle |-> FALSE,
                                        port |-> -1, exc |-> "none"]

\* The call has returned the sentinel after an empty read.
C2_Witness ==
    /\ LineRead /\ line = <<>>
    /\ t_pc = "done" /\ t_result.kind = "sentinel" /\ t_result.port = -1

\* A received line is malformed: fewer than four fields, or field 3 is not a
\* decimal integer.
BadShape(l) ==
    \/ Len(Split(Strip(l))) < 4
    \/ ~IsDecimal(Split(Strip(l))[4])

\* C3: for every line actually received (a line holding only a newline or
\* whitespace included) that has fewer than four fields or whose field at
\* index 3 is not numeric, the call raises a hard failure; it never returns
\* the sentinel (None, -1) and never returns a handle.
C3_MalformedLineRaises ==
    (LineRead /\ line # <<>> /\ BadShape(line)) =>
        /\ t_result.kind \in {"none", "raised"}
        /\ ~t_result.handle
        /\ t_pc = "done" => t_result.kind = "raised"

\* The call has raised for a line that held only a newline.
C3_Witness ==
    /\ LineRead /\ line = <<"\n">>
    /\ t_pc = "done" /\ t_result.kind = "raised" /\ t_result.exc = "Exception"

\* str.split() without a separator: the maximal runs of non-whitespace.
RECURSIVE WsFieldsFrom(_, _, _)
WsFieldsFrom(s, cur, acc) ==
    IF s = <<>> THEN (IF cur = <<>> THEN acc ELSE Append(acc, cur))
    ELSE IF IsSpace(Head(s))
      THEN WsFieldsFrom(Tail(s), <<>>, IF cur = <<>> THEN acc ELSE Append(acc, cur))
      ELSE WsFieldsFrom(Tail(s), Append(cur, Head(s)), acc)

WsFields(s) == WsFieldsFrom(s, <<>>, <<>>)

\* The call completed in Ready with a handle and this field as the port.
ReadyWith(field) ==
    /\ t_result.kind = "ready"
    /\ t_result.handle
    /\ t_result.port = DecimalValue(field, 0)

\* C7 as stated: for every first line of four or more whitespace-separated
\* fields whose 4th field is a decimal integer, whatever whitespace separates
\* the fields (one space, several spaces, tabs), the call reaches Ready and
\* returns the handle with that field as the port.
C7_AnyWhitespaceReady ==
    (LineRead /\ Len(WsFields(line)) >= 4 /\ IsDecimal(WsFields(line)[4])) =>
        /\ t_pc \in {"parse", "done"}
        /\ t_pc = "done" => ReadyWith(WsFields(line)[4])

\* C7 (amended): for every first line that, once surrounding whitespace is
\* stripped, is cut by its single space characters into four or more fields
\* whose field at index 3 is a decimal integer, the call reaches Ready and
\* returns the handle with that field as the port.
C7_SingleSpaceReady ==
    (LineRead /\ Len(FieldsRead) >= 4 /\ IsDecimal(FieldsRead[4])) =>
        /\ t_pc \in {"parse", "done"}
        /\ t_pc = "done" => ReadyWith(FieldsRead[4])

\* Ready was reached for a banner of four single-spaced fields with a
\* leading blank and the newline still on the line that was read.
C7_Witness ==
    /\ t_pc = "done" /\ t_result.kind = "ready" /\ t_result.handle
    /\ line = <<" ", "a", " ", "7", " ", "a", " ", "4", "2", "\n">>
    /\ t_result.port = 42

\* C8: every port returned together with a handle lies in 1..65535.
C8_PortInRange ==
    t_result.handle => t_result.port \in 1..65535

\* The child has put a complete first line on its stdout.
FirstLineWritten ==
    \/ HasNewline(child.out)
    \/ LineRead /\ HasNewline(line)

\* C9: once the child has written a complete first line, the call completes
\* (Ready, or the raised protocol violation) unless the child exits or
\* closes its stderr: completion does not require either.
C9_CompletesWhileChildRuns ==
    [](FirstLineWritten =>
         <>(t_pc = "done" \/ ~child.running \/ ~child.err_open))

(***************************************************************************)
(* Claims about cdswctl_login                                              *)
(***************************************************************************)
\* The command line as it was written to the log.
RenderedCommands ==
    { l_log[i].text : i \in { j \in 1..Len(l_log) :
                                l_log[j].text[1] = "cdswctl login command: " } }

\* C4: for every binary path, host, user name, API key and CA path
\* (combinations where the key equals another element of the argument
\* vector included), the command rendered to the log holds no argument
\* equal to the API key.
C4_KeyNeverLogged ==
    l_pc # "idle" =>
        \A r \in RenderedCommands :
            \A i \in 2..Len(r) : r[i] # l_args.api_key

(***************************************************************************)
(* Claims about the install                                                *)
(***************************************************************************)
\* Directory d lies strictly below directory root.
IsDescendant(d, root) ==
    /\ Len(d) > Len(root)
    /\ \A k \in 1..Len(root) : d[k] = root[k]

\* C5: in every install in which the workspace directory is not a
\* descendant of the root directory read by the check, the install fails
\* with the validation error and never extracts; extraction only happens
\* after the descendant check has passed.
C5_NoExtractionOutsideRoot ==
    \A i \in Installs :
        /\ (inst[i].checked # "no"
              /\ ~IsDescendant(inst[i].dir_path, inst[i].root_seen)) =>
                /\ inst[i].pc = "raised"
                /\ inst[i].exc = "RuntimeError"
                /\ inst[i].tf = "none"
                /\ inst[i].extract_calls = 0
        /\ (inst[i].extract_calls > 0 \/ inst[i].pc = "extract") =>
                /\ inst[i].checked = "passed"
                /\ IsDescendant(inst[i].dir_path, inst[i].root_seen)

\* An install that had downloaded its archive failed the descendant check.
C5_Witness ==
    \E i \in Installs :
        /\ inst[i].fetched # "none"
        /\ inst[i].checked = "failed"
        /\ inst[i].pc = "raised" /\ inst[i].exc = "RuntimeError"
        /\ ~IsDescendant(inst[i].dir_path, inst[i].root_seen)

\* Install i returns in this step, having downloaded a well-formed archive.
ReturnsGood(i) ==
    /\ inst[i].pc # "returned"
    /\ inst'[i].pc = "returned"
    /\ inst[i].fetched = "good"

\* After the step: the binary is at <workspace>/cdswctl, which is the
\* returned path, and the workspace holds neither the archive file nor the
\* archive's top-level directory.
CleanWorkspaceAfter(i) ==
    /\ inst'[i].returned = join(inst[i].dir_path, "cdswctl")
    /\ Len(inst'[i].returned) >= 2
    /\ inst'[i].returned[Len(inst'[i].returned) - 1] \in Tokens
    /\ isfile(fs', inst'[i].returned)
    /\ fs'[inst'[i].returned] = "binary"
    /\ ~exists(fs', inst[i].file_path)
    /\ ~exists(fs', join(inst[i].dir_path, "cdsw"))

\* C6 as stated: given a well-formed archive, a successful install ends in
\* a state where the binary exists at <root>/<token>/cdswctl, the returned
\* path, and the workspace contains neither the archive file nor the
\* archive's top-level directory.
C6_InstallLeavesOnlyBinary ==
    [][\A i \in Installs : ReturnsGood(i) => CleanWorkspaceAfter(i)]_vars

\* C6 (amended): the same, for an install whose workspace directory no
\* other install call was using while it ran.
C6_ExclusiveInstallLeavesOnlyBinary ==
    [][\A i \in Installs :
          (ReturnsGood(i) /\ ~inst'[i].shared) => CleanWorkspaceAfter(i)]_vars

\* An install that had its workspace to itself returned with the binary in
\* place and the archive and its directory gone.
C6_Witness ==
    \E i \in Installs :
        /\ inst[i].pc = "returned" /\ inst[i].fetched = "good"
        /\ ~inst[i].shared
        /\ isfile(fs, inst[i].returned)
        /\ listdir(fs, inst[i].dir_path) = {"cdswctl"}

\* C10: when the archive was written and a later step before the deletion
\* fails (the path validation, or the extraction, wholly or part way), the
\* deletion of the archive file is attempted, once, before the failure
\* reaches the caller.
C10_ArchiveDeletionAttempted ==
    \A i \in Installs :
        (/\ inst[i].pc = "raised"
         /\ inst[i].fetched # "none"
         /\ inst[i].failed_at \in {"validate", "open", "extract"}) =>
            inst[i].remove_calls = 1

\* C11 as stated: two installs running at the same time have distinct
\* workspace directories, so that no path is written by both, and an
\* install never takes a workspace directory that exists already.
C11_WorkspacesAlwaysDistinct ==
    /\ \A i, j \in Installs :
          (i # j /\ Running(i) /\ Running(j)) =>
              /\ inst[i].dir_path # inst[j].dir_path
              /\ inst[i].touched \cap inst[j].touched = {}
    /\ \A i \in Installs :
          inst[i].pc \in {"download", "validate", "open", "extract", "remove",
                          "listdir", "rename", "removedirs", "returned"}
              => inst[i].created

\* The archive names a member outside the directory it is extracted into.
EscapesWorkspace(a) ==
    a # "none" /\ \E m \in Members(a) : \E k \in 1..Len(m.rel) : m.rel[k] = ".."

\* C11 (amended): two installs whose tokens (hence workspace directories)
\* differ, and whose archives name no member outside the workspace, never
\* write the same path. A token can repeat; the install that draws a token
\* whose directory exists takes that directory as it is.
C11_DistinctTokensDisjointPaths ==
    \A i, j \in Installs :
        (/\ i # j
         /\ inst[i].dir_path # inst[j].dir_path
         /\ ~EscapesWorkspace(inst[i].tf)
         /\ ~EscapesWorkspace(inst[j].tf)) =>
            inst[i].touched \cap inst[j].touched = {}

\* Two installs ran side by side in different workspaces of the same base
\* directory, and each wrote its archive and its binary.
C11_Witness ==
    /\ inst["i1"].dir_path # inst["i2"].dir_path
    /\ Parent(inst["i1"].dir_path) = Parent(inst["i2"].dir_path)
    /\ inst["i1"].pc = "returned" /\ inst["i2"].pc = "removedirs"
    /\ inst["i1"].file_path \in inst["i1"].touched
    /\ inst["i2"].file_path \in inst["i2"].touched
    /\ inst["i1"].returned \in inst["i1"].touched

\* The archive format of the download target selected for platform p.
SelectedFormat(p) ==
    IF file_name(get_cdswctl_download_url(InstallHost, p)) = "cdsw.zip"
      THEN "zip" ELSE "tar.gz"

\* The well-formed archive of a format.
WellFormed(format) == IF format = "zip" THEN "goodzip" ELSE "good"

\* C12: on every platform the extraction step reads the archive format of
\* the target selected for that platform, so an install that downloaded a
\* well-formed archive of that format (and had its workspace to itself)
\* never fails to open it as an archive.
C12_SelectedFormatIsExtracted ==
    \A i \in Installs :
        (/\ platform \in Platforms
         /\ inst[i].fetched = WellFormed(SelectedFormat(platform))
         /\ ~inst[i].shared) =>
            ~(/\ inst[i].pc = "raised"
              /\ inst[i].failed_at = "open"
              /\ inst[i].exc = "ReadError")

\* C16: every path an install returns lies strictly inside the root
\* directory that its descendant check read, and names no parent step,
\* whatever the archive held.
C16_ReturnedPathInsideRoot ==
    \A i \in Installs :
        inst[i].pc = "returned" =>
            /\ IsDescendant(inst[i].returned, inst[i].root_seen)
            /\ \A k \in 1..Len(inst[i].returned) : inst[i].returned[k] # ".."
            /\ inst[i].returned = join(inst[i].dir_path, "cdswctl")

\* An install returned after extracting an archive one of whose members
\* was written outside the workspace directory.
C16_Witness ==
    \E i \in Installs :
        /\ inst[i].pc = "returned"
        /\ EscapesWorkspace(inst[i].tf)
        /\ \E m \in Members(inst[i].tf) :
              /\ ~IsDescendant(target(inst[i].dir_path, m), inst[i].dir_path)
              /\ target(inst[i].dir_path, m) \in inst[i].touched
              /\ exists(fs, target(inst[i].dir_path, m))
        /\ IsDescendant(inst[i].returned, inst[i].root_seen)

(***************************************************************************)
(* Claims about the download URL                                           *)
(***************************************************************************)
\* The target the mapping names for platform p.
TargetFor(p) ==
    IF p = "linux" THEN <<"cli", "linux", "amd64", "cdsw.tar.gz">>
    ELSE IF p = "darwin" THEN <<"cli", "darwin", "amd64", "cdsw.tar.gz">>
    ELSE <<"cli", "windows", "amd64", "cdsw.zip">>

\* C15: for every platform value the call returns the host URL joined with
\* cli/linux/amd64/cdsw.tar.gz on linux, cli/darwin/amd64/cdsw.tar.gz on
\* darwin and cli/windows/amd64/cdsw.zip on every other value.
C15_UrlForPlatform ==
    u_pc = "returned" =>
        /\ platform \in Platforms
        /\ final_url = urljoin(u_host, Ref(TargetFor(platform), FALSE))
        /\ final_url.origin = u_host.origin
        /\ Len(final_url.path) >= 4
        /\ SubSeq(final_url.path, Len(final_url.path) - 3, Len(final_url.path))
              = TargetFor(platform)

\* On a platform the code does not name, a host URL with a path of two
\* segments and no final "/" was resolved to the windows target.
C15_Witness ==
    /\ u_pc = "returned"
    /\ platform = "freebsd13"
    /\ u_host = [origin |-> "https://h", path |-> <<"a", "b">>, slash |-> FALSE]
    /\ final_url = [origin |-> "https://h",
                    path |-> <<"a", "cli", "windows", "amd64", "cdsw.zip">>,
                    slash |-> FALSE]

(***************************************************************************)
(* Claims about the command of the tunnel                                  *)
(***************************************************************************)
\* The decimal numeral of a runtime id.
Numeral(n) ==
    CASE n = -1 -> "-1"
      [] n = 0  -> "0"
      [] n = 7  -> "7"
      [] OTHER  -> "?"

\* The vector without a runtime option.
DefaultRuntimeCommand ==
    <<t_args.cdswctl_path, "ssh-endpoint", "-p", t_args.project_slug,
      "-c", "1.0", "-m", "0.5">>

\* C13: the vector the call spawns is [binaryPath, ssh-endpoint, -p,
\* projectSlug, -c, 1.0, -m, 0.5] when runtimeId is -1, and that vector
\* followed by [-r, runtimeId] otherwise; -r -1 is never passed.
C13_SpawnedCommand ==
    t_pc # "idle" =>
        /\ t_args.runtime_id = -1 => command = DefaultRuntimeCommand
        /\ t_args.runtime_id # -1 =>
              command = DefaultRuntimeCommand
                          \o <<"-r", Numeral(t_args.runtime_id)>>
        /\ \A k \in 1..(Len(command) - 1) :
              ~(command[k] = "-r" /\ command[k + 1] = "-1")

\* A call for runtime 0 spawned the child with the pair -r 0 and came back
\* with the handle.
C13_Witness ==
    /\ t_pc = "done"
    /\ t_result.kind = "ready"
    /\ t_args.runtime_id = 0
    /\ Len(command) = 10
    /\ command[9] = "-r" /\ command[10] = "0"

(***************************************************************************)
(* Claims about the reads of the tunnel                                    *)
(***************************************************************************)
\* The child was started: the call is past line 52.
Spawned == t_pc # "idle" /\ t_result.exc # "OSError"

\* C18: between starting the child and completing, the call reads exactly
\* one line from the child's stdout, on the ready path and on both failure
\* paths; it never reads a second line.
C18_ExactlyOneStdoutRead ==
    /\ stdout_reads \in {0, 1}
    /\ t_pc \in {"idle", "readline"} => stdout_reads = 0
    /\ t_pc \in {"drain_empty", "parse", "drain_bad"} => stdout_reads = 1
    /\ (t_pc = "done" /\ Spawned) => stdout_reads = 1
    /\ (t_pc = "done" /\ ~Spawned) => stdout_reads = 0

\* The call raised for a malformed line after its single read, while the
\* child was running with its stdout still open.
C18_Witness ==
    /\ t_pc = "done"
    /\ t_result.kind = "raised" /\ t_result.exc = "Exception"
    /\ stdout_reads = 1
    /\ HasNewline(line)
    /\ child.running /\ child.out_open

\* C19: on every failure path of the call (the sentinel after an empty
\* read, the failure raised for a malformed line) the drain of the child's
\* stderr has been made before the failure is returned or raised.
C19_DrainBeforeFailure ==
    (/\ t_pc = "done"
     /\ LineRead
     /\ t_result.kind \in {"sentinel", "raised"}) =>
        stderr_drains >= 1

(***************************************************************************)
(* Claims about the login                                                  *)
(***************************************************************************)
\* The failure value holds the text t.
Carries(t) == \E k \in 1..Len(l_result.message) : l_result.message[k] = t

\* The error log holds the text t.
ErrorLogged(t) ==
    \E k \in 1..Len(l_log) :
        /\ l_log[k].level = "error"
        /\ \E n \in 1..Len(l_log[k].text) : l_log[k].text[n] = t

\* C14 as stated: the login raises if and only if the process exited with
\* a non-zero status, and the failure value then carries the captured
\* stderr text; with status 0 it returns without raising.
C14_RaisesIffNonZeroWithStderr ==
    l_pc = "done" =>
        /\ l_result.kind = "raised" <=> (result.ran /\ result.returncode # 0)
        /\ (l_result.kind = "raised" /\ result.stderr # "") =>
              Carries(result.stderr)

\* C14 (amended): when the process ran to completion, the login raises if
\* and only if its exit status is not zero; the failure value carries the
\* exit status, and the captured stderr text is written to the error log,
\* not to the failure value; with status 0 the login returns. The login
\* also raises when the process could not be started.
C14_RaisesIffNonZeroStderrLogged ==
    l_pc = "done" =>
        /\ result.ran =>
              /\ l_result.kind = "raised" <=> result.returncode # 0
              /\ l_result.kind = "returned" <=> result.returncode = 0
        /\ (result.ran /\ l_result.kind = "raised") =>
              /\ l_result.message =
                   <<"cdswctl login failed with return code ",
                     str(result.returncode)>>
              /\ ErrorLogged(result.stderr)
              /\ result.stderr # "" => ~Carries(result.stderr)
        /\ ~result.ran =>
              l_result.kind = "raised" /\ l_result.exc = "OSError"

\* The process was ended by a signal after writing to its stderr, and the
\* login raised with the status, the text being in the error log.
C14_Witness ==
    /\ l_pc = "done"
    /\ result.ran /\ result.returncode = -9
    /\ result.stderr = "bad credentials"
    /\ l_result.kind = "raised"
    /\ Carries("-9")
    /\ ErrorLogged("bad credentials")

\* The ca_path values that equal "false" when case is ignored.
EqualsFalseIgnoringCase(ca) == ca \in {"false", "False", "FALSE"}

\* The vector the claim names for the arguments a.
ExpectedLoginVector(a) ==
    IF EqualsFalseIgnoringCase(a.ca_path)
      THEN <<a.cdswctl_path, "login", "-n", a.username, "-u", a.host,
             "-y", a.api_key, "--insecure-skip-verify">>
      ELSE <<a.cdswctl_path, "login", "-n", a.username, "-u", a.host,
             "-y", a.api_key>>

\* C17: the vector the login executes is [binaryPath, login, -n, username,
\* -u, host, -y, apiKey], followed by --insecure-skip-verify if and only
\* if caPath equals "false" when case is ignored.
C17_LoginVector ==
    result.ran =>
        /\ result.args = ExpectedLoginVector(l_args)
        /\ (\E k \in 1..Len(result.args) :
               result.args[k] = "--insecure-skip-verify")
             <=> (EqualsFalseIgnoringCase(l_args.ca_path)
                    \/ "--insecure-skip-verify" \in
                         {l_args.cdswctl_path, l_args.username,
                          l_args.host, l_args.api_key})

\* A login with caPath "False" ran the nine-element vector ending with the
\* flag.
C17_Witness ==
    /\ result.ran
    /\ l_args.ca_path = "False"
    /\ Len(result.args) = 9
    /\ result.args[9] = "--insecure-skip-verify"

\* C20: masking the key for the log never changes the command that is
\* executed: the vector handed to the process holds the real key after -y
\* and equals the vector built before masking.
C20_MaskLeavesCommand ==
    /\ l_pc \in {"run", "done"} => cmd = login_cmd(l_args)
    /\ result.ran =>
          /\ result.args = login_cmd(l_args)
          /\ result.args[7] = "-y"
          /\ result.args[8] = l_args.api_key
          /\ result.args[4] = l_args.username
          /\ result.args[6] = l_args.host

\* A command ran whose logged copy had been changed by the mask.
C20_Witness ==
    /\ result.ran
    /\ masked_cmd # cmd
    /\ \E k \in 1..Len(masked_cmd) :
          masked_cmd[k] = "<api_key>" /\ result.args[k] = l_args.api_key

====
